---- MODULE Spec2Model ----
(***************************************************************************)
(* A model of src/simulation.py: the day-stepped deployment simulation     *)
(* (class DeploymentSimulation) and its caller's use of run_simulation.    *)
(*                                                                         *)
(* Dates are day ordinals: weekday(d) = d % 7 with Monday = 0, as          *)
(* datetime.weekday() numbers them.  Probabilities are percentages; a      *)
(* comparison random.random() < p is the set Draw(p) of its outcomes.      *)
(* Hours and costs are the integers the default parameters produce (the    *)
(* source computes them as floats whose values are these integers).        *)
(*                                                                         *)
(* Spec is the engine with its default parameters under any sequence of    *)
(* run_simulation calls.  SpecNoTeam, SpecNoFailure and SpecNoDependency   *)
(* are the engine with other parameters, SpecScaled is two engines that    *)
(* differ in failure_cost_multiplier, SpecDependencies starts from a       *)
(* registry that holds a task with a longer dependency list, and           *)
(* SpecEndless is a run whose day-steps go on for ever, with fair draws.   *)
(***************************************************************************)
EXTENDS Integers, Sequences, FiniteSets

(* ------------------------------ bounds -------------------------------- *)

\* Day-steps simulated in one behaviour, over all run_simulation calls.
MaxDays == 3

(* ------------------------ SIMULATION_DEFAULTS ------------------------- *)

team_size == 5

avg_hourly_rate == 75

new_tasks_per_day == 3

hourly_revenue == 1000

hourly_downtime_cost == 2000

\* 0.05, as a percentage
base_deploy_failure_rate == 5

weekend_recovery_multiplier == 3

normal_recovery_hours == 2

\* 0.3, as a percentage
dependency_probability == 30

\* the literal 0.3 of progress_tasks, as a percentage
ReadinessRate == 30

\* 24, the hours of a full day of delay
HoursPerDay == 24

FRIDAY == 4

other_teams ==
    << [name |-> "Backend Team", task_completion_rate |-> 20,
        allows_friday_deploys |-> FALSE],
       [name |-> "Security Team", task_completion_rate |-> 10,
        allows_friday_deploys |-> FALSE] >>

SIMULATION_DEFAULTS ==
    [ team_size |-> team_size,
      avg_hourly_rate |-> avg_hourly_rate,
      new_tasks_per_day |-> new_tasks_per_day,
      task_complexity_range |-> <<1, 5>>,
      hourly_revenue |-> hourly_revenue,
      hourly_downtime_cost |-> hourly_downtime_cost,
      base_deploy_failure_rate |-> base_deploy_failure_rate,
      weekend_recovery_multiplier |-> weekend_recovery_multiplier,
      normal_recovery_hours |-> normal_recovery_hours,
      dependency_probability |-> dependency_probability,
      other_teams |-> other_teams ]

\* The parameter structures a caller passes (`params`).  The engines explored
\* take one new task a day, of complexity 1 (complexity is written and never
\* read); every other parameter has its default.
ParamChoices ==
    { [SIMULATION_DEFAULTS EXCEPT !.new_tasks_per_day = 1,
                                  !.task_complexity_range = <<1, 1>>] }

\* failure_cost_multiplier: the default 1.0 and the scenario 10.0.
Multipliers == {1, 10}

(* ----------------------------- TaskStatus ----------------------------- *)

IN_PROGRESS == "in_progress"

READY_TO_DEPLOY == "ready_to_deploy"

DEPLOYED == "deployed"

FAILED == "failed"

TaskStatus == {IN_PROGRESS, READY_TO_DEPLOY, DEPLOYED, FAILED}

\* Optional[datetime] = None: no date (dates are >= 0)
None == -1

(* ------------------------------ helpers ------------------------------- *)

\* datetime.weekday(): Monday is 0, Sunday is 6
weekday(d) == d % 7

\* The outcomes of `random.random() < p` (random() is in [0, 1)), p in percent.
Draw(p) == {b \in BOOLEAN : (b => p > 0) /\ (~b => p < 100)}

\* random.randint(lo, hi)
randint(lo, hi) == lo..hi

\* list.remove(x): drops the first element equal to x
RECURSIVE list_remove(_, _)
list_remove(s, x) ==
    IF s = <<>> THEN <<>>
    ELSE IF Head(s) = x THEN Tail(s)
    ELSE <<Head(s)>> \o list_remove(Tail(s), x)

\* [k : tasks[k].status = READY_TO_DEPLOY], in list order (task indices)
RECURSIVE ready_from(_, _)
ready_from(tasks, k) ==
    IF k > Len(tasks) THEN <<>>
    ELSE (IF tasks[k].status = READY_TO_DEPLOY THEN <<k>> ELSE <<>>)
         \o ready_from(tasks, k + 1)

\* A faulty ReadyTasks: it keeps every task not yet deployed or failed,
\* the IN_PROGRESS ones too.
ReadyTasks_open(e) ==
    SelectSeq([k \in 1..Len(e.tasks) |-> k],
              LAMBDA k : e.tasks[k].status \in {IN_PROGRESS, READY_TO_DEPLOY})

ReadyTasks(e) == ready_from(e.tasks, 1)

(* ------------------------------- state -------------------------------- *)

VARIABLES
    sim,         \* the DeploymentSimulation object, with the locals of the
                 \* simulate_day call in progress (i, ready_tasks, daily_cost,
                 \* deploy_cost, delay_cost)
    pc,          \* where the caller and the engine stand
    days,        \* the argument of the current (or last) run_simulation call
    day_index,   \* the iterations its loop has made
    result,      \* the dictionary the last run_simulation call returned
    single,      \* a second engine, constructed like sim (in SpecScaled
                 \* with another failure_cost_multiplier) and driven by one
                 \* run_simulation call with the same random outcomes
    start_date,  \* (history) current_date at construction
    steps,       \* (history) day-steps completed since construction
    call_steps,  \* (history) `steps` when that call was entered
    charged      \* (history) the pairs <<task id, date>> such that the task
                 \* was counted in the delay cost of that date

vars ==
    <<sim, pc, days, day_index, result, single, start_date, steps, call_steps,
      charged>>

\* No run_simulation call has returned yet.
NoResult == [returned |-> FALSE]

(* ------------------------ DeploymentSimulation ------------------------ *)

\* __init__; `now` is datetime.now() truncated to midnight
new_simulation(allow, params, multiplier, now) ==
    [ params |-> params,
      failure_cost_multiplier |-> multiplier,
      allow_friday_deploys |-> allow,
      current_date |-> now,
      tasks |-> <<>>,
      task_counter |-> 0,
      total_cost |-> 0,
      daily_costs |-> <<>>,
      metrics |-> [ failed_deploys |-> 0,
                    successful_deploys |-> 0,
                    delayed_tasks |-> 0,
                    total_recovery_hours |-> 0 ],
      i |-> 0,
      ready_tasks |-> <<>>,
      daily_cost |-> 0,
      deploy_cost |-> 0,
      delay_cost |-> 0 ]

\* A faulty DependencyChoices: the draw is `random.random() <= p`, which
\* can succeed when p is 0.
DependencyChoices_le(e) ==
    UNION { IF b THEN { <<e.params.other_teams[t].name>> :
                          t \in 1..Len(e.params.other_teams) }
                 ELSE { <<>> } :
            b \in {c \in BOOLEAN :
                      ~c => e.params.dependency_probability < 100} }

\* The dependency lists one iteration of generate_daily_tasks can draw.
DependencyChoices(e) ==
    UNION { IF b THEN { <<e.params.other_teams[t].name>> :
                          t \in 1..Len(e.params.other_teams) }
                 ELSE { <<>> } :
            b \in Draw(e.params.dependency_probability) }

\* A faulty generate_task: the id is read before the counter is incremented.
generate_task_stale_id(e, complexity, dependencies) ==
    [e EXCEPT !.task_counter = @ + 1,
              !.tasks = Append(@, [ id |-> e.task_counter,
                                    created_date |-> e.current_date,
                                    complexity |-> complexity,
                                    status |-> IN_PROGRESS,
                                    deploy_date |-> None,
                                    recovery_hours |-> 0,
                                    dependencies |-> dependencies ]),
              !.i = @ + 1]

\* One iteration of generate_daily_tasks' loop.
generate_task(e, complexity, dependencies) ==
    [e EXCEPT !.task_counter = @ + 1,
              !.tasks = Append(@, [ id |-> e.task_counter + 1,
                                    created_date |-> e.current_date,
                                    complexity |-> complexity,
                                    status |-> IN_PROGRESS,
                                    deploy_date |-> None,
                                    recovery_hours |-> 0,
                                    dependencies |-> dependencies ]),
              !.i = @ + 1]

\* A faulty should_deploy_today: Friday numbered 5, as isoweekday() does.
should_deploy_today_iso(e) ==
    IF weekday(e.current_date) = 5 THEN e.allow_friday_deploys ELSE TRUE

\* A faulty should_deploy_today: the flag gates Saturday and Sunday too.
should_deploy_today_weekend(e) ==
    IF weekday(e.current_date) >= FRIDAY THEN e.allow_friday_deploys ELSE TRUE

should_deploy_today(e) ==
    IF weekday(e.current_date) = FRIDAY THEN e.allow_friday_deploys ELSE TRUE

\* A faulty calculate_deploy_risk: the default rate, whatever `params` says.
calculate_deploy_risk_default(e) == base_deploy_failure_rate

calculate_deploy_risk(e) == e.params.base_deploy_failure_rate

\* A faulty calculate_recovery_time: Friday is not counted with the weekend.
calculate_recovery_time_sat_sun(e) ==
    IF weekday(e.current_date) \in {5, 6}
    THEN e.params.normal_recovery_hours * e.params.weekend_recovery_multiplier
    ELSE e.params.normal_recovery_hours

calculate_recovery_time(e) ==
    IF weekday(e.current_date) \in {4, 5, 6}
    THEN e.params.normal_recovery_hours * e.params.weekend_recovery_multiplier
    ELSE e.params.normal_recovery_hours

\* next(t for t in other_teams if t['name'] == dep)
team_of(e, dep) ==
    LET t == CHOOSE t \in 1..Len(e.params.other_teams) :
                 /\ e.params.other_teams[t].name = dep
                 /\ \A u \in 1..(t - 1) : e.params.other_teams[u].name # dep
    IN e.params.other_teams[t]

\* `for dep in task.dependencies: if random.random() < rate: remove(dep)`:
\* the lists the loop can leave, from its n-th iteration on.  The list
\* iterator reads position n of the list as it is then, and stops when n is
\* past its end.
RECURSIVE dependency_loop(_, _, _)
dependency_loop(e, deps, n) ==
    IF n > Len(deps) THEN {deps}
    ELSE UNION { IF b THEN dependency_loop(e, list_remove(deps, deps[n]), n + 1)
                      ELSE dependency_loop(e, deps, n + 1) :
                 b \in Draw(team_of(e, deps[n]).task_completion_rate) }

\* A faulty ReadinessChoices: the test of the dependency list is inverted
\* (`if task.dependencies and random.random() < 0.3`).
ReadinessChoices_inverted(deps) ==
    IF deps # <<>> THEN Draw(ReadinessRate) ELSE {FALSE}

\* The readiness draw is made only when no dependency remains.
ReadinessChoices(deps) == IF deps = <<>> THEN Draw(ReadinessRate) ELSE {FALSE}

\* One iteration of progress_tasks' loop, on an IN_PROGRESS task: its
\* dependencies become `deps`, and it becomes ready when `ready`.
progress_task(e, deps, ready) ==
    [e EXCEPT !.tasks[e.i].dependencies = deps,
              !.tasks[e.i].status = IF ready THEN READY_TO_DEPLOY ELSE @,
              !.i = @ + 1]

\* A faulty failure_cost: the multiplier is left out of downtime_cost.
failure_cost_unscaled_downtime(e, recovery_hours) ==
    recovery_hours * e.params.team_size * e.params.avg_hourly_rate
        * e.failure_cost_multiplier
    + recovery_hours * e.params.hourly_downtime_cost

\* recovery_cost + downtime_cost of a failed deployment
failure_cost(e, recovery_hours) ==
    recovery_hours * e.params.team_size * e.params.avg_hourly_rate
        * e.failure_cost_multiplier
    + recovery_hours * e.params.hourly_downtime_cost * e.failure_cost_multiplier

\* A faulty failure branch: the cost is added to the day's cost and not to
\* the running total.
deploy_failed_total_missed(e) ==
    LET k == e.ready_tasks[e.i]
        hours == calculate_recovery_time(e)
    IN [e EXCEPT !.tasks[k].status = FAILED,
                 !.tasks[k].recovery_hours = hours,
                 !.metrics.failed_deploys = @ + 1,
                 !.daily_cost = @ + failure_cost(e, hours),
                 !.metrics.total_recovery_hours = @ + hours,
                 !.i = @ + 1]

\* One iteration of attempt_deployments' loop: the failure branch.
deploy_failed(e) ==
    LET k == e.ready_tasks[e.i]
        hours == calculate_recovery_time(e)
    IN [e EXCEPT !.tasks[k].status = FAILED,
                 !.tasks[k].recovery_hours = hours,
                 !.metrics.failed_deploys = @ + 1,
                 !.daily_cost = @ + failure_cost(e, hours),
                 !.total_cost = @ + failure_cost(e, hours),
                 !.metrics.total_recovery_hours = @ + hours,
                 !.i = @ + 1]

\* A faulty success branch: deploy_date is not written.
deploy_succeeded_undated(e) ==
    LET k == e.ready_tasks[e.i]
    IN [e EXCEPT !.tasks[k].status = DEPLOYED,
                 !.metrics.successful_deploys = @ + 1,
                 !.i = @ + 1]

\* One iteration of attempt_deployments' loop: the success branch.
deploy_succeeded(e) ==
    LET k == e.ready_tasks[e.i]
    IN [e EXCEPT !.tasks[k].status = DEPLOYED,
                 !.tasks[k].deploy_date = e.current_date,
                 !.metrics.successful_deploys = @ + 1,
                 !.i = @ + 1]

\* A faulty calculate_daily_delay_cost: one day of revenue, whatever the
\* number of ready tasks.
calculate_daily_delay_cost_flat(e) ==
    LET ready == ReadyTasks(e)
        cost == e.params.hourly_revenue * HoursPerDay
    IN IF ready # <<>> /\ ~should_deploy_today(e)
       THEN [e EXCEPT !.delay_cost = cost,
                      !.total_cost = @ + cost,
                      !.metrics.delayed_tasks = @ + Len(ready)]
       ELSE [e EXCEPT !.delay_cost = 0]

\* calculate_daily_delay_cost, with its return value stored in delay_cost
calculate_daily_delay_cost(e) ==
    LET ready == ReadyTasks(e)
        cost == Len(ready) * e.params.hourly_revenue * HoursPerDay
    IN IF ready # <<>> /\ ~should_deploy_today(e)
       THEN [e EXCEPT !.delay_cost = cost,
                      !.total_cost = @ + cost,
                      !.metrics.delayed_tasks = @ + Len(ready)]
       ELSE [e EXCEPT !.delay_cost = 0]

\* The tasks calculate_daily_delay_cost counts in the delay cost of the
\* day (`len(ready_tasks)` of them, when deploys are skipped), each with the
\* date.
delay_charges(e) ==
    IF ReadyTasks(e) # <<>> /\ ~should_deploy_today(e)
    THEN { <<e.tasks[ReadyTasks(e)[j]].id, e.current_date>> :
             j \in 1..Len(ReadyTasks(e)) }
    ELSE {}

\* The entry of simulate_day, and of generate_daily_tasks' loop.
simulate_day_begin(e) == [e EXCEPT !.i = 0]

\* The entry of progress_tasks' loop, at the first task.
progress_begin(e) == [e EXCEPT !.i = 1]

\* An iteration of progress_tasks' loop at a task that is not IN_PROGRESS.
progress_skip(e) == [e EXCEPT !.i = @ + 1]

\* attempt_deployments when should_deploy_today() is false: `return daily_cost`
deploy_skipped(e) == [e EXCEPT !.daily_cost = 0, !.deploy_cost = 0]

\* A faulty deploy_begin: only the first ready task is listed.
deploy_begin_first_only(e) ==
    [e EXCEPT !.daily_cost = 0,
              !.ready_tasks = IF ReadyTasks(e) = <<>> THEN <<>>
                              ELSE <<Head(ReadyTasks(e))>>,
              !.i = 1]

\* attempt_deployments when deploys proceed: daily_cost and ready_tasks
deploy_begin(e) ==
    [e EXCEPT !.daily_cost = 0, !.ready_tasks = ReadyTasks(e), !.i = 1]

\* deploy_cost = self.attempt_deployments()
deploy_return(e) == [e EXCEPT !.deploy_cost = e.daily_cost]

\* A faulty end of simulate_day: the clock is not advanced.
end_of_day_no_tick(e) ==
    [e EXCEPT !.daily_costs = Append(@, e.deploy_cost + e.delay_cost),
              !.i = 0, !.ready_tasks = <<>>, !.daily_cost = 0,
              !.deploy_cost = 0, !.delay_cost = 0]

\* The end of simulate_day: the append, the clock; the locals die.
end_of_day(e) ==
    [e EXCEPT !.daily_costs = Append(@, e.deploy_cost + e.delay_cost),
              !.current_date = @ + 1,
              !.i = 0, !.ready_tasks = <<>>, !.daily_cost = 0,
              !.deploy_cost = 0, !.delay_cost = 0]

\* The dictionary run_simulation returns.  total_cost and the flag are
\* values; 'daily_costs' and 'metrics' are the engine's own list and
\* dictionary (the same objects, not copies): see result_daily_costs.
run_result(e) ==
    [ returned |-> TRUE,
      total_cost |-> e.total_cost,
      allow_friday_deploys |-> e.allow_friday_deploys ]

\* result['daily_costs'] is self.daily_costs itself
result_daily_costs == sim.daily_costs

\* result['metrics'] is self.metrics itself
result_metrics == sim.metrics

(* ------------------------------ actions ------------------------------- *)

\* The days a caller passes to run_simulation; a negative count makes
\* range(days) empty.
DaysArgs == {-1} \cup (0..MaxDays)

Init ==
    /\ \E allow \in BOOLEAN, params \in ParamChoices,
          multiplier \in Multipliers, now \in 0..6 :
          /\ sim = new_simulation(allow, params, multiplier, now)
          /\ single = new_simulation(allow, params, multiplier, now)
          /\ start_date = now
    /\ pc = "idle"
    /\ days = 0
    /\ day_index = 0
    /\ result = NoResult
    /\ steps = 0
    /\ call_steps = 0
    /\ charged = {}

\* A faulty entry of run_simulation(d): each call starts a new cost series.
run_simulation_call_new_series(d) ==
    /\ pc = "idle"
    /\ d <= MaxDays - steps
    /\ pc' = "run"
    /\ days' = d
    /\ day_index' = 0
    /\ call_steps' = steps
    /\ sim' = [sim EXCEPT !.daily_costs = <<>>]
    /\ UNCHANGED <<result, single, start_date, charged, steps>>

\* The entry of run_simulation(d).
run_simulation_call(d) ==
    /\ pc = "idle"
    /\ d <= MaxDays - steps
    /\ pc' = "run"
    /\ days' = d
    /\ day_index' = 0
    /\ call_steps' = steps
    /\ UNCHANGED <<sim, result, single, start_date, charged, steps>>

\* A faulty loop: range(days + 1).
run_simulation_loop_one_more ==
    /\ pc = "run"
    /\ day_index <= days
    /\ pc' = "generate"
    /\ sim' = simulate_day_begin(sim)
    /\ single' = simulate_day_begin(single)
    /\ UNCHANGED <<days, day_index, result, start_date, charged, steps,
                   call_steps>>

\* `for _ in range(days)`: one more iteration, which enters simulate_day.
run_simulation_loop ==
    /\ pc = "run"
    /\ day_index < days
    /\ pc' = "generate"
    /\ sim' = simulate_day_begin(sim)
    /\ single' = simulate_day_begin(single)
    /\ UNCHANGED <<days, day_index, result, start_date, charged, steps,
                   call_steps>>

\* The loop is over: run_simulation returns its dictionary.  days and
\* day_index keep the values of the call that returned.
run_simulation_return ==
    /\ pc = "run"
    /\ ~(day_index < days)
    /\ pc' = "idle"
    /\ result' = run_result(sim)
    /\ UNCHANGED <<sim, days, day_index, single, start_date, charged, steps,
                   call_steps>>

generate_daily_tasks ==
    /\ pc = "generate"
    /\ sim.i < sim.params.new_tasks_per_day
    /\ \E complexity \in randint(sim.params.task_complexity_range[1],
                                 sim.params.task_complexity_range[2]),
          dependencies \in DependencyChoices(sim) :
          /\ sim' = generate_task(sim, complexity, dependencies)
          /\ single' = generate_task(single, complexity, dependencies)
    /\ UNCHANGED <<pc, days, day_index, result, start_date, charged, steps,
                   call_steps>>

generate_daily_tasks_done ==
    /\ pc = "generate"
    /\ ~(sim.i < sim.params.new_tasks_per_day)
    /\ pc' = "progress"
    /\ sim' = progress_begin(sim)
    /\ single' = progress_begin(single)
    /\ UNCHANGED <<days, day_index, result, start_date, charged, steps,
                   call_steps>>

\* progress_tasks' loop at a task that is IN_PROGRESS
progress_tasks ==
    /\ pc = "progress"
    /\ sim.i <= Len(sim.tasks)
    /\ sim.tasks[sim.i].status = IN_PROGRESS
    /\ \E deps \in dependency_loop(sim, sim.tasks[sim.i].dependencies, 1) :
          \E ready \in ReadinessChoices(deps) :
             /\ sim' = progress_task(sim, deps, ready)
             /\ single' = progress_task(single, deps, ready)
    /\ UNCHANGED <<pc, days, day_index, result, start_date, charged, steps,
                   call_steps>>

\* progress_tasks' loop at a task that is not IN_PROGRESS
progress_tasks_skip ==
    /\ pc = "progress"
    /\ sim.i <= Len(sim.tasks)
    /\ sim.tasks[sim.i].status # IN_PROGRESS
    /\ sim' = progress_skip(sim)
    /\ single' = progress_skip(single)
    /\ UNCHANGED <<pc, days, day_index, result, start_date, charged, steps,
                   call_steps>>

progress_tasks_done ==
    /\ pc = "progress"
    /\ sim.i > Len(sim.tasks)
    /\ pc' = "deploy"
    /\ UNCHANGED <<sim, days, day_index, result, single, start_date,
                   charged, steps, call_steps>>

\* attempt_deployments on a day without deploys: returns 0 at once
attempt_deployments_skipped ==
    /\ pc = "deploy"
    /\ ~should_deploy_today(sim)
    /\ pc' = "delay"
    /\ sim' = deploy_skipped(sim)
    /\ single' = deploy_skipped(single)
    /\ UNCHANGED <<days, day_index, result, start_date, charged, steps,
                   call_steps>>

\* attempt_deployments on a day with deploys: the list of ready tasks
attempt_deployments_begin ==
    /\ pc = "deploy"
    /\ should_deploy_today(sim)
    /\ pc' = "deploy_loop"
    /\ sim' = deploy_begin(sim)
    /\ single' = deploy_begin(single)
    /\ UNCHANGED <<days, day_index, result, start_date, charged, steps,
                   call_steps>>

\* `for task in ready_tasks`: one attempt
attempt_deployments ==
    /\ pc = "deploy_loop"
    /\ sim.i <= Len(sim.ready_tasks)
    /\ \E failure \in Draw(calculate_deploy_risk(sim)) :
          IF failure
          THEN sim' = deploy_failed(sim) /\ single' = deploy_failed(single)
          ELSE sim' = deploy_succeeded(sim)
               /\ single' = deploy_succeeded(single)
    /\ UNCHANGED <<pc, days, day_index, result, start_date, charged, steps,
                   call_steps>>

\* attempt_deployments returns daily_cost, which simulate_day keeps
attempt_deployments_done ==
    /\ pc = "deploy_loop"
    /\ sim.i > Len(sim.ready_tasks)
    /\ pc' = "delay"
    /\ sim' = deploy_return(sim)
    /\ single' = deploy_return(single)
    /\ UNCHANGED <<days, day_index, result, start_date, charged, steps,
                   call_steps>>

daily_delay_cost ==
    /\ pc = "delay"
    /\ pc' = "bookkeep"
    /\ sim' = calculate_daily_delay_cost(sim)
    /\ single' = calculate_daily_delay_cost(single)
    /\ charged' = charged \cup delay_charges(sim)
    /\ UNCHANGED <<days, day_index, result, start_date, steps, call_steps>>

\* The last two lines of simulate_day, and the loop's next index.
simulate_day_end ==
    /\ pc = "bookkeep"
    /\ pc' = "run"
    /\ sim' = end_of_day(sim)
    /\ single' = end_of_day(single)
    /\ day_index' = day_index + 1
    /\ steps' = steps + 1
    /\ UNCHANGED <<days, result, start_date, charged, call_steps>>

Next ==
    \/ \E d \in DaysArgs : run_simulation_call(d)
    \/ run_simulation_loop
    \/ run_simulation_return
    \/ generate_daily_tasks
    \/ generate_daily_tasks_done
    \/ progress_tasks
    \/ progress_tasks_skip
    \/ progress_tasks_done
    \/ attempt_deployments_skipped
    \/ attempt_deployments_begin
    \/ attempt_deployments
    \/ attempt_deployments_done
    \/ daily_delay_cost
    \/ simulate_day_end

Spec == Init /\ [][Next]_vars

(* ------------------------------- claims ------------------------------- *)

Tasks == 1..Len(sim.tasks)

Terminal == {DEPLOYED, FAILED}

\* The status changes the design allows in one step: none out of DEPLOYED
\* or FAILED, none backwards, none from IN_PROGRESS past READY_TO_DEPLOY.
StatusMove(a, b) ==
    \/ a = b
    \/ a = IN_PROGRESS /\ b = READY_TO_DEPLOY
    \/ a = READY_TO_DEPLOY /\ b \in Terminal

\* C1: in every step of the engine (every assignment to a task's status),
\* each task keeps its status or moves IN_PROGRESS -> READY_TO_DEPLOY or
\* READY_TO_DEPLOY -> DEPLOYED or FAILED; a DEPLOYED or FAILED task keeps
\* its status, and no task leaves the registry.
C1_StatusMovesForward ==
    [][ /\ Len(sim'.tasks) >= Len(sim.tasks)
        /\ \A k \in Tasks :
              StatusMove(sim.tasks[k].status, sim'.tasks[k].status) ]_vars

\* C1 witness: a failed task and a deployed task, after a later day-step
\* has run over them.
C1_Witness ==
    /\ pc = "idle"
    /\ \E k \in Tasks : /\ sim.tasks[k].status = FAILED
                        /\ sim.tasks[k].created_date < sim.current_date - 1
    /\ \E k \in Tasks : /\ sim.tasks[k].status = DEPLOYED
                        /\ sim.tasks[k].deploy_date < sim.current_date - 1

\* Deploys are forbidden today: a Friday, in an engine that forbids them.
BlockedFriday ==
    ~sim.allow_friday_deploys /\ weekday(sim.current_date) = FRIDAY

\* C2: in an engine with allow_friday_deploys = False, no step taken while
\* the current date is a Friday makes a task DEPLOYED or FAILED, writes a
\* deploy_date or recovery_hours, or changes failed_deploys,
\* successful_deploys or total_recovery_hours; and no task ever has a Friday
\* deploy_date.
C2_NoDeployOnBlockedFriday ==
    [][ /\ BlockedFriday =>
             /\ \A k \in Tasks :
                   /\ sim'.tasks[k].status \in Terminal
                         => sim'.tasks[k].status = sim.tasks[k].status
                   /\ sim'.tasks[k].deploy_date = sim.tasks[k].deploy_date
                   /\ sim'.tasks[k].recovery_hours
                         = sim.tasks[k].recovery_hours
             /\ sim'.metrics.failed_deploys = sim.metrics.failed_deploys
             /\ sim'.metrics.successful_deploys
                   = sim.metrics.successful_deploys
             /\ sim'.metrics.total_recovery_hours
                   = sim.metrics.total_recovery_hours
        /\ ~sim'.allow_friday_deploys =>
             \A k \in 1..Len(sim'.tasks) :
                sim'.tasks[k].deploy_date # None
                   => weekday(sim'.tasks[k].deploy_date) # FRIDAY ]_vars

\* C2 witness: the end of a blocked Friday on which two tasks were ready and
\* none was attempted.
C2_Witness ==
    /\ BlockedFriday
    /\ pc = "bookkeep"
    /\ Len(ReadyTasks(sim)) = 2
    /\ sim.deploy_cost = 0

\* The tasks that are READY_TO_DEPLOY now.
ReadyNow == {k \in Tasks : sim.tasks[k].status = READY_TO_DEPLOY}

\* The day-step that just ended (the clock has moved on) skipped its deploys.
YesterdayBlocked ==
    ~sim.allow_friday_deploys /\ weekday(sim.current_date - 1) = FRIDAY

\* C3: on a day whose deploys are not skipped, the deployment step attempts
\* the tasks that were READY_TO_DEPLOY when it began, each once (the list
\* holds no task twice, the attempted ones are DEPLOYED or FAILED, the others
\* still ready and all in the rest of the list, and every DEPLOYED or FAILED
\* task accounts for exactly one counted attempt), and no task is
\* READY_TO_DEPLOY from the end of that step to the end of the day-step.
C3_ReadyTasksAllAttempted ==
    /\ pc = "deploy_loop" =>
          LET r == sim.ready_tasks
          IN /\ \A j \in 1..Len(r) :
                   IF j < sim.i
                   THEN sim.tasks[r[j]].status \in Terminal
                   ELSE sim.tasks[r[j]].status = READY_TO_DEPLOY
             /\ \A j1, j2 \in 1..Len(r) : j1 # j2 => r[j1] # r[j2]
             /\ \A k \in ReadyNow : \E j \in sim.i..Len(r) : r[j] = k
    /\ Cardinality({k \in Tasks : sim.tasks[k].status \in Terminal})
          = sim.metrics.successful_deploys + sim.metrics.failed_deploys
    /\ (pc \in {"delay", "bookkeep"} /\ ~BlockedFriday) => ReadyNow = {}
    /\ (pc \in {"run", "idle"} /\ steps > 0 /\ ~YesterdayBlocked)
          => ReadyNow = {}

\* C3 witness: a deployment step that has attempted two ready tasks.
C3_Witness ==
    /\ pc = "delay"
    /\ ~BlockedFriday
    /\ Len(sim.ready_tasks) = 2

\* C4: the delay-cost step yields n * hourly_revenue * 24 on a day whose
\* deploys were skipped, n being the number of READY_TO_DEPLOY tasks then,
\* and 0 on a day whose deploys proceeded; delayed_tasks grows by n on a
\* skipped day and is changed by no other step.
C4_DelayCost ==
    [][ IF pc = "delay"
        THEN LET n == Cardinality(ReadyNow)
             IN /\ sim'.delay_cost
                      = (IF BlockedFriday THEN n * hourly_revenue * 24 ELSE 0)
                /\ sim'.metrics.delayed_tasks
                      = sim.metrics.delayed_tasks
                           + (IF BlockedFriday THEN n ELSE 0)
        ELSE sim'.metrics.delayed_tasks = sim.metrics.delayed_tasks ]_vars

\* C4 witness: a blocked Friday charged for two ready tasks.
C4_Witness ==
    /\ pc = "bookkeep"
    /\ BlockedFriday
    /\ sim.delay_cost = 2 * hourly_revenue * 24
    /\ sim.metrics.delayed_tasks = 2

\* C5: an attempt that fails adds (recovery_hours * team_size * hourly_rate
\* + recovery_hours * hourly_downtime_cost) * failure_cost_multiplier to the
\* day's cost and to total_cost, 1 to failed_deploys and recovery_hours to
\* total_recovery_hours; an attempt that succeeds adds 1 to
\* successful_deploys and nothing to either cost.
C5_AttemptAccounting ==
    [][ (pc = "deploy_loop" /\ sim'.i = sim.i + 1) =>
          LET k == sim.ready_tasks[sim.i]
              hours == sim'.tasks[k].recovery_hours
              cost == (hours * team_size * avg_hourly_rate
                          + hours * hourly_downtime_cost)
                         * sim.failure_cost_multiplier
              m == sim.metrics
              n == sim'.metrics
          IN \/ /\ sim'.tasks[k].status = FAILED
                /\ sim'.daily_cost = sim.daily_cost + cost
                /\ sim'.total_cost = sim.total_cost + cost
                /\ n.failed_deploys = m.failed_deploys + 1
                /\ n.total_recovery_hours = m.total_recovery_hours + hours
                /\ n.successful_deploys = m.successful_deploys
             \/ /\ sim'.tasks[k].status = DEPLOYED
                /\ sim'.daily_cost = sim.daily_cost
                /\ sim'.total_cost = sim.total_cost
                /\ n.successful_deploys = m.successful_deploys + 1
                /\ n.failed_deploys = m.failed_deploys
                /\ n.total_recovery_hours = m.total_recovery_hours ]_vars

\* C5 witness: a deployment step, at multiplier 10, in which one attempt
\* failed and one succeeded.
C5_Witness ==
    /\ pc = "delay"
    /\ sim.failure_cost_multiplier = 10
    /\ Len(sim.ready_tasks) = 2
    /\ sim.tasks[sim.ready_tasks[1]].status = FAILED
    /\ sim.tasks[sim.ready_tasks[2]].status = DEPLOYED
    /\ sim.daily_cost > 0

\* C6: a task that fails gets recovery_hours = normal_recovery_hours *
\* weekend_recovery_multiplier when the day is a Friday, Saturday or Sunday
\* and normal_recovery_hours on Monday to Thursday, and a FAILED task's
\* recovery_hours is changed by no later step.
C6_RecoveryHours ==
    [][ \A k \in Tasks :
          /\ (sim.tasks[k].status # FAILED /\ sim'.tasks[k].status = FAILED)
                => sim'.tasks[k].recovery_hours
                      = (IF weekday(sim.current_date) \in {4, 5, 6}
                         THEN normal_recovery_hours
                                 * weekend_recovery_multiplier
                         ELSE normal_recovery_hours)
          /\ sim.tasks[k].status = FAILED
                => sim'.tasks[k].recovery_hours
                      = sim.tasks[k].recovery_hours ]_vars

\* C6 witness: a task failed on a Sunday and one failed on a Monday, seen
\* after Monday's day-step.
C6_Witness ==
    /\ pc = "idle"
    /\ weekday(sim.current_date) = 1
    /\ \E k1, k2 \in Tasks :
          /\ sim.tasks[k1].status = FAILED
          /\ sim.tasks[k1].recovery_hours
                = normal_recovery_hours * weekend_recovery_multiplier
          /\ sim.tasks[k2].status = FAILED
          /\ sim.tasks[k2].recovery_hours = normal_recovery_hours

\* C7: for every task, deploy_date is set exactly when the status is
\* DEPLOYED, and recovery_hours > 0 exactly when the status is FAILED.
C7_DeployDateAndRecoveryHours ==
    \A k \in Tasks :
       /\ sim.tasks[k].deploy_date # None <=> sim.tasks[k].status = DEPLOYED
       /\ sim.tasks[k].recovery_hours > 0 <=> sim.tasks[k].status = FAILED

\* C7 witness: the registry holds a task in progress, a deployed one and a
\* failed one.
C7_Witness ==
    \A st \in {IN_PROGRESS, DEPLOYED, FAILED} :
       \E k \in Tasks : sim.tasks[k].status = st

\* The object's attributes (not the locals of a call in progress).
EngineState(e) ==
    [ params |-> e.params,
      failure_cost_multiplier |-> e.failure_cost_multiplier,
      allow_friday_deploys |-> e.allow_friday_deploys,
      current_date |-> e.current_date,
      tasks |-> e.tasks,
      task_counter |-> e.task_counter,
      total_cost |-> e.total_cost,
      daily_costs |-> e.daily_costs,
      metrics |-> e.metrics ]

\* C8: whenever a run_simulation call has returned, however the day-steps
\* so far were split into calls, the engine is in the state of an engine
\* constructed alike and driven through the same day-steps with the same
\* random outcomes by one call, and the dictionary returned is the one that
\* call returns.
C8_RunContinues ==
    (pc = "idle" /\ result.returned) =>
        /\ EngineState(sim) = EngineState(single)
        /\ result = run_result(single)
        /\ result_daily_costs = single.daily_costs
        /\ result_metrics = single.metrics

\* C8 witness: a call of at least one day has returned that was entered
\* after at least one day-step of an earlier call.
C8_Witness ==
    /\ pc = "idle"
    /\ result.returned
    /\ 0 < call_steps
    /\ call_steps < steps
    /\ sim.total_cost > 0

\* C9: daily_costs has one entry per day-step made, each appended after the
\* earlier ones and never changed; the clock is that many days after the
\* start date; and a run_simulation(days) call returns after exactly `days`
\* day-steps (none when days is not positive).
C9_OneEntryPerDay ==
    [][ /\ Len(sim'.daily_costs) = steps'
        /\ sim'.current_date = start_date' + steps'
        /\ SubSeq(sim'.daily_costs, 1, steps) = sim.daily_costs
        /\ (pc = "run" /\ pc' = "idle")
              => steps - call_steps = (IF days > 0 THEN days ELSE 0) ]_vars

\* C9 witness: a call of two or more days has returned.
C9_Witness ==
    /\ pc = "idle"
    /\ result.returned
    /\ days >= 2
    /\ steps - call_steps = days
    /\ Len(sim.daily_costs) = steps

\* C10: run_simulation(0) on a freshly constructed engine returns total
\* cost 0, an empty per-day cost sequence and four metrics equal to 0.
C10_ZeroDays ==
    (pc = "idle" /\ result.returned /\ days = 0 /\ call_steps = 0) =>
        /\ result.total_cost = 0
        /\ result_daily_costs = <<>>
        /\ result_metrics.failed_deploys = 0
        /\ result_metrics.successful_deploys = 0
        /\ result_metrics.delayed_tasks = 0
        /\ result_metrics.total_recovery_hours = 0

\* C10 witness: run_simulation(0) has returned on a fresh engine.
C10_Witness ==
    /\ pc = "idle"
    /\ result.returned
    /\ days = 0
    /\ call_steps = 0
    /\ steps = 0

(* ------------------- engines with other parameters -------------------- *)

\* The state after the constructions `DeploymentSimulation(allow, params,
\* multiplier)` and `DeploymentSimulation(allow, params, k)` made at `now`,
\* before any call of run_simulation.
Constructed(allow, params, multiplier, k, now) ==
    /\ sim = new_simulation(allow, params, multiplier, now)
    /\ single = new_simulation(allow, params, k, now)
    /\ start_date = now
    /\ pc = "idle"
    /\ days = 0
    /\ day_index = 0
    /\ result = NoResult
    /\ steps = 0
    /\ call_steps = 0
    /\ charged = {}

(* ----------------------- C11: no external team ------------------------ *)

\* Parameters with an empty 'other_teams' and the default (nonzero)
\* dependency_probability.
NoTeamParamChoices ==
    { [p EXCEPT !.other_teams = <<>>] : p \in ParamChoices }

InitNoTeam ==
    \E allow \in BOOLEAN, params \in NoTeamParamChoices,
       multiplier \in Multipliers, now \in 0..6 :
       Constructed(allow, params, multiplier, multiplier, now)

\* generate_daily_tasks when the dependency draw succeeds and 'other_teams'
\* is empty: random.choice([]) raises IndexError, after the counter was
\* incremented and before the task is built.  Nothing catches it: neither
\* simulate_day nor run_simulation returns.
generate_daily_tasks_raise ==
    /\ pc = "generate"
    /\ sim.i < sim.params.new_tasks_per_day
    /\ TRUE \in Draw(sim.params.dependency_probability)
    /\ sim.params.other_teams = <<>>
    /\ pc' = "raised"
    /\ sim' = [sim EXCEPT !.task_counter = @ + 1]
    /\ single' = [single EXCEPT !.task_counter = @ + 1]
    /\ UNCHANGED <<days, day_index, result, start_date, charged, steps,
                   call_steps>>

NextNoTeam == Next \/ generate_daily_tasks_raise

SpecNoTeam == InitNoTeam /\ [][NextNoTeam]_vars

\* C11 (as the spec states it): contract violations fail fast.  No call of
\* run_simulation with days <= 0 returns a result, and an engine with no
\* external team and a nonzero dependency_probability never starts a
\* day-step: its error is raised at construction or at the entry of run.
C11_FailFast ==
    /\ (pc = "idle" /\ result.returned) => days > 0
    /\ (sim.params.other_teams = <<>> /\ sim.params.dependency_probability > 0)
          => (pc \in {"idle", "run", "raised"} /\ sim.task_counter = 0)

\* C11 (as the code has it): nothing is validated.  Every call of
\* run_simulation is entered without an error; a call with days <= 0 makes
\* no day-step, leaves the engine as it is and returns the result of that
\* engine; the only error of an engine without external teams is raised
\* inside the task generation of a day-step, where a dependency is drawn.
C11_NoValidation ==
    [][ /\ (pc = "idle" => (pc' = "run" /\ sim' = sim))
        /\ ((pc = "run" /\ days <= 0)
               => /\ pc' = "idle"
                  /\ sim' = sim
                  /\ steps' = steps
                  /\ result' = run_result(sim))
        /\ (pc' = "raised"
               => /\ pc = "generate"
                  /\ sim.params.other_teams = <<>>
                  /\ sim'.tasks = sim.tasks) ]_vars

\* C11 witness: run_simulation(-1) has returned a result on an engine that
\* has already simulated a day.
C11_Witness ==
    /\ pc = "idle"
    /\ days < 0
    /\ result.returned
    /\ steps >= 1
    /\ result.total_cost = sim.total_cost
    /\ Len(sim.daily_costs) = steps

(* ------------------- C12: two cost multipliers ------------------------ *)

\* The multiplier k of the second engine: the scenarios 10.0 of
\* compare_deployment_strategies' default and 1000.0 of the main program.
ScaleFactors == {10, 1000}

\* Two engines with the same flag, parameters and clock: sim with
\* failure_cost_multiplier 1 and the second engine with multiplier k.  Every
\* action applies the same random outcomes to both.
InitScaled ==
    \E allow \in BOOLEAN, params \in ParamChoices, k \in ScaleFactors,
       now \in 0..6 :
       Constructed(allow, params, 1, k, now)

SpecScaled == InitScaled /\ [][Next]_vars

\* sum(s)
RECURSIVE SumSeq(_)
SumSeq(s) == IF s = <<>> THEN 0 ELSE Head(s) + SumSeq(Tail(s))

\* What the failed tasks of e have cost: recovery_cost + downtime_cost of
\* each, from the recovery hours the task records.
FailureRelated(e) ==
    SumSeq([k \in 1..Len(e.tasks) |->
              IF e.tasks[k].status = FAILED
              THEN failure_cost(e, e.tasks[k].recovery_hours) ELSE 0])

\* C12: two engines with the same flag and parameters and the same random
\* outcomes, one with multiplier 1 and one with multiplier k, stay in
\* lock-step.  In every state their tasks (so all statuses) and their four
\* metrics are equal; the delay cost of the day is the same in both and the
\* failure cost of the day (the value attempt_deployments returns, and its
\* running value) is k times as large in the second; over the days so far,
\* the totals differ by (k - 1) times the failure-related cost of the first.
C12_LockStep ==
    LET k == single.failure_cost_multiplier
    IN /\ sim.failure_cost_multiplier = 1
       /\ single.tasks = sim.tasks
       /\ single.metrics = sim.metrics
       /\ single.current_date = sim.current_date
       /\ single.delay_cost = sim.delay_cost
       /\ single.deploy_cost = k * sim.deploy_cost
       /\ single.daily_cost = k * sim.daily_cost
       /\ Len(single.daily_costs) = Len(sim.daily_costs)
       /\ single.total_cost - sim.total_cost = (k - 1) * FailureRelated(sim)
       /\ \A j \in 1..Len(sim.daily_costs) :
             /\ single.daily_costs[j] >= sim.daily_costs[j]
             /\ (single.daily_costs[j] - sim.daily_costs[j]) % (k - 1) = 0
             /\ k * sim.daily_costs[j] >= single.daily_costs[j]
       /\ SumSeq(single.daily_costs) - SumSeq(sim.daily_costs)
             = (k - 1) * (FailureRelated(sim) - sim.daily_cost)

\* C12 witness: at the end of a day on which a deployment failed, after a
\* day that charged delay cost, with k = 10.
C12_Witness ==
    /\ pc = "bookkeep"
    /\ single.failure_cost_multiplier = 10
    /\ sim.deploy_cost > 0
    /\ single.deploy_cost = 10 * sim.deploy_cost
    /\ sim.metrics.delayed_tasks > 0
    /\ single.total_cost > sim.total_cost

(* ------------------ C13: deployments that never fail ------------------ *)

\* Parameters with base_deploy_failure_rate = 0.
NoFailureParamChoices ==
    { [p EXCEPT !.base_deploy_failure_rate = 0] : p \in ParamChoices }

InitNoFailure ==
    \E allow \in BOOLEAN, params \in NoFailureParamChoices,
       multiplier \in Multipliers, now \in 0..6 :
       Constructed(allow, params, multiplier, multiplier, now)

SpecNoFailure == InitNoFailure /\ [][Next]_vars

\* C13: with base_deploy_failure_rate = 0, under either flag and in every
\* state, failed_deploys and total_recovery_hours are 0, no task is FAILED,
\* every task attempt_deployments has attempted is DEPLOYED, the failure
\* cost of the day is 0, and the total cost is delay cost only (24 hours of
\* revenue for each delayed-task count).
C13_NoFailures ==
    /\ sim.params.base_deploy_failure_rate = 0
    /\ sim.metrics.failed_deploys = 0
    /\ sim.metrics.total_recovery_hours = 0
    /\ \A k \in Tasks : /\ sim.tasks[k].status # FAILED
                        /\ sim.tasks[k].recovery_hours = 0
    /\ pc = "deploy_loop"
          => \A j \in 1..(sim.i - 1) :
                sim.tasks[sim.ready_tasks[j]].status = DEPLOYED
    /\ pc \in {"delay", "bookkeep"} /\ should_deploy_today(sim)
          => \A j \in 1..Len(sim.ready_tasks) :
                sim.tasks[sim.ready_tasks[j]].status = DEPLOYED
    /\ sim.metrics.successful_deploys
          = Cardinality({k \in Tasks : sim.tasks[k].status = DEPLOYED})
    /\ sim.daily_cost = 0
    /\ sim.deploy_cost = 0
    /\ FailureRelated(sim) = 0
    /\ sim.total_cost
          = sim.metrics.delayed_tasks * sim.params.hourly_revenue * HoursPerDay
    /\ SumSeq(sim.daily_costs) + sim.delay_cost = sim.total_cost

\* C13 witness: with Friday deploys forbidden, a run has returned after a
\* delayed task and a deployment, at a positive total cost.
C13_Witness ==
    /\ pc = "idle"
    /\ result.returned
    /\ ~sim.allow_friday_deploys
    /\ sim.params.base_deploy_failure_rate = 0
    /\ sim.metrics.successful_deploys >= 1
    /\ sim.metrics.delayed_tasks >= 1
    /\ sim.total_cost > 0

(* --------------------- C14: no dependency drawn ----------------------- *)

\* Parameters with dependency_probability = 0.
NoDependencyParamChoices ==
    { [p EXCEPT !.dependency_probability = 0] : p \in ParamChoices }

InitNoDependency ==
    \E allow \in BOOLEAN, params \in NoDependencyParamChoices,
       multiplier \in Multipliers, now \in 0..6 :
       Constructed(allow, params, multiplier, multiplier, now)

SpecNoDependency == InitNoDependency /\ [][Next]_vars

\* C14: with dependency_probability = 0, every task of the registry has an
\* empty dependency list in every state; so when progress_tasks reaches an
\* IN_PROGRESS task, its dependency loop makes no completion draw (it can
\* only leave the empty list) and the readiness draw is made, with both of
\* its outcomes possible.
C14_NoDependencies ==
    /\ sim.params.dependency_probability = 0
    /\ \A k \in Tasks : sim.tasks[k].dependencies = <<>>
    /\ (pc = "progress" /\ sim.i <= Len(sim.tasks)
          /\ sim.tasks[sim.i].status = IN_PROGRESS)
          => /\ dependency_loop(sim, sim.tasks[sim.i].dependencies, 1)
                   = { <<>> }
             /\ ReadinessChoices(sim.tasks[sim.i].dependencies) = BOOLEAN

\* C14 witness: three tasks have been generated, one of them has become
\* ready and been deployed, and another is still in progress.
C14_Witness ==
    /\ pc = "idle"
    /\ sim.params.dependency_probability = 0
    /\ Len(sim.tasks) = 3
    /\ \E k \in Tasks : sim.tasks[k].status = DEPLOYED
    /\ \E k \in Tasks : sim.tasks[k].status = IN_PROGRESS

(* ------------- C15: a task with several dependencies ------------------ *)

\* The longest dependency list of a task placed in the registry.
MaxDeps == 2

\* The dependency lists (List[str]) over the names of the external teams,
\* of at most MaxDeps names.
DependencyLists(e) ==
    UNION { [1..n -> {e.params.other_teams[t].name :
                        t \in 1..Len(e.params.other_teams)}] : n \in 0..MaxDeps }

\* The engine e after `e.tasks.append(Task(id, e.current_date, 1,
\* IN_PROGRESS, dependencies=deps))` with the next id: generate_daily_tasks
\* attaches at most one dependency, Task.dependencies takes any list.
with_task(e, deps) == generate_task(simulate_day_begin(e), 1, deps)

\* progress_tasks applied to registries whose first task has a dependency
\* list drawn from DependencyLists.
InitDependencies ==
    \E allow \in BOOLEAN, params \in ParamChoices, now \in 0..6 :
       \E deps \in DependencyLists(new_simulation(allow, params, 1, now)) :
          /\ sim = with_task(new_simulation(allow, params, 1, now), deps)
          /\ single = with_task(new_simulation(allow, params, 1, now), deps)
          /\ start_date = now
          /\ pc = "idle"
          /\ days = 0
          /\ day_index = 0
          /\ result = NoResult
          /\ steps = 0
          /\ call_steps = 0
          /\ charged = {}

SpecDependencies == InitDependencies /\ [][Next]_vars

\* The lists independent draws can leave: each dependency is kept or
\* removed by its own draw against its team's completion rate, whatever the
\* other draws give.
RECURSIVE IndependentRemovals(_, _)
IndependentRemovals(e, deps) ==
    IF deps = <<>> THEN { <<>> }
    ELSE UNION { { IF b THEN rest ELSE <<Head(deps)>> \o rest :
                     rest \in IndependentRemovals(e, Tail(deps)) } :
                 b \in Draw(team_of(e, Head(deps)).task_completion_rate) }

C16_ResultIsSnapshot ==
    [][ (result.returned /\ ~(pc = "run" /\ pc' = "idle"))
           => /\ result' = result
              /\ result_daily_costs' = result_daily_costs
              /\ result_metrics' = result_metrics ]_vars

(* ----------------------- C17: the cost ledger ------------------------- *)

\* C17: at the end of every day-step (and between run_simulation calls)
\* total_cost is the sum of the entries of daily_costs; the entry a day-step
\* appends is the failure cost attempt_deployments returned that day plus
\* the delay cost calculate_daily_delay_cost returned that day, the earlier
\* entries staying as they are; and on no day are both of them nonzero.
C17_CostLedger ==
    [][ /\ pc' \in {"idle", "run"}
           => sim'.total_cost = SumSeq(sim'.daily_costs)
        /\ pc = "bookkeep"
           => /\ sim'.daily_costs
                    = Append(sim.daily_costs, sim.deploy_cost + sim.delay_cost)
              /\ sim.deploy_cost = sim.daily_cost
              /\ ~(sim.deploy_cost # 0 /\ sim.delay_cost # 0)
              /\ sim.deploy_cost >= 0 /\ sim.delay_cost >= 0
              /\ sim.total_cost
                    = SumSeq(sim.daily_costs) + sim.deploy_cost + sim.delay_cost
              /\ sim.delay_cost # 0 => ~should_deploy_today(sim)
              /\ sim.deploy_cost # 0 => should_deploy_today(sim) ]_vars

\* C17 witness: a run has returned after a day with delay cost and a day
\* with failure cost, the two entries differing and adding up to the total.
C17_Witness ==
    /\ pc = "idle"
    /\ result.returned
    /\ sim.metrics.delayed_tasks > 0
    /\ sim.metrics.failed_deploys > 0
    /\ \E i, j \in 1..Len(sim.daily_costs) :
          /\ sim.daily_costs[i] > 0
          /\ sim.daily_costs[j] > 0
          /\ sim.daily_costs[i] # sim.daily_costs[j]
          /\ sim.total_cost = sim.daily_costs[i] + sim.daily_costs[j]

(* ------------------ C18: how long a task stays ready ------------------ *)

\* C18: a READY_TO_DEPLOY task is DEPLOYED or FAILED by the end of the next
\* day-step.  A task is ready at the end of a day-step only if that day was
\* a Friday of an engine that forbids Friday deploys, and it was then
\* counted in that Friday's delay cost; every task counted in the delay cost
\* of a day d was counted on a blocked Friday and is DEPLOYED (with
\* deploy_date d + 1, the Saturday) or FAILED once the deployment step of
\* day d + 1 is over; so no task is counted in the delay cost of two days
\* (nor ready across three blocked days), and delayed_tasks is the number
\* of tasks so counted.
C18_ReadyAtMostOneDay ==
    /\ (pc \in {"run", "idle"} /\ ReadyNow # {})
          => /\ steps > 0
             /\ ~sim.allow_friday_deploys
             /\ weekday(sim.current_date - 1) = FRIDAY
             /\ \A k \in ReadyNow :
                   <<sim.tasks[k].id, sim.current_date - 1>> \in charged
    /\ \A p \in charged :
          /\ p[1] \in Tasks
          /\ weekday(p[2]) = FRIDAY
          /\ ~sim.allow_friday_deploys
          /\ sim.tasks[p[1]].status # IN_PROGRESS
          /\ (\/ sim.current_date > p[2] + 1
              \/ sim.current_date = p[2] + 1 /\ pc \in {"delay", "bookkeep"})
                => /\ sim.tasks[p[1]].status \in Terminal
                   /\ sim.tasks[p[1]].status = DEPLOYED
                         => sim.tasks[p[1]].deploy_date = p[2] + 1
    /\ \A p, q \in charged : p[1] = q[1] => p = q
    /\ sim.metrics.delayed_tasks = Cardinality(charged)

\* C18 witness: two tasks were ready on a blocked Friday and counted in its
\* delay cost; the Saturday's day-step is over, one of them is deployed and
\* the other failed.
C18_Witness ==
    /\ pc \in {"run", "idle"}
    /\ weekday(sim.current_date) = 6
    /\ \E p, q \in charged :
          /\ p[2] = sim.current_date - 2
          /\ sim.tasks[p[1]].status = DEPLOYED
          /\ sim.tasks[q[1]].status = FAILED

(* ------------------ C19: metrics and the registry --------------------- *)

\* The number of tasks of the registry with status s.
CountStatus(s) == Cardinality({k \in Tasks : sim.tasks[k].status = s})

\* C19: in every state successful_deploys is the number of DEPLOYED tasks,
\* failed_deploys the number of FAILED tasks and total_recovery_hours the
\* sum of the tasks' recovery_hours; the k-th task created has id k (ids
\* 1..n, distinct and increasing) and task_counter is n; between day-steps
\* n is new_tasks_per_day times the day-steps run, and inside a day-step it
\* is that plus the tasks the step has generated so far.
C19_MetricsMatchRegistry ==
    /\ sim.metrics.successful_deploys = CountStatus(DEPLOYED)
    /\ sim.metrics.failed_deploys = CountStatus(FAILED)
    /\ sim.metrics.total_recovery_hours
          = SumSeq([k \in Tasks |-> sim.tasks[k].recovery_hours])
    /\ \A k \in Tasks : sim.tasks[k].id = k
    /\ sim.task_counter = Len(sim.tasks)
    /\ Len(sim.tasks)
          = sim.params.new_tasks_per_day * steps
            + (CASE pc \in {"idle", "run"} -> 0
                 [] pc = "generate" -> sim.i
                 [] OTHER -> sim.params.new_tasks_per_day)
    /\ \A k \in Tasks : sim.tasks[k].created_date = start_date + (k - 1)
          \div sim.params.new_tasks_per_day

\* C19 witness: after three day-steps the registry holds tasks 1..3, one
\* deployed and one failed.
C19_Witness ==
    /\ pc = "idle"
    /\ steps = 3
    /\ Len(sim.tasks) = 3 * sim.params.new_tasks_per_day
    /\ sim.metrics.successful_deploys = 1
    /\ sim.metrics.failed_deploys = 1
    /\ sim.metrics.total_recovery_hours > 0

(* ------------------ C20: day-steps without an end --------------------- *)

\* The tasks followed through an endless run: the first MaxTracked created.
MaxTracked == 1

\* What an endless run keeps of the engine e at the end of a day-step.  The
\* date is kept as its weekday (the engine reads a date only through
\* weekday()) and the list of daily costs is not kept (nothing in a day-step
\* reads it), so that the days can go on in finitely many states.
weekly(e) == [e EXCEPT !.current_date = weekday(@), !.daily_costs = <<>>]

\* `for _ in range(days)` with days as large as one likes: one more
\* iteration.
endless_loop ==
    /\ pc = "run"
    /\ pc' = "generate"
    /\ sim' = simulate_day_begin(sim)
    /\ single' = simulate_day_begin(single)
    /\ UNCHANGED <<days, day_index, result, start_date, charged, steps,
                   call_steps>>

\* generate_daily_tasks, for a task that is followed
generate_tracked ==
    /\ Len(sim.tasks) < MaxTracked
    /\ generate_daily_tasks

\* generate_daily_tasks, for the tasks that are not followed: they are left
\* out of the registry (no step on a task reads another task).
generate_untracked ==
    /\ pc = "generate"
    /\ sim.i < sim.params.new_tasks_per_day
    /\ Len(sim.tasks) >= MaxTracked
    /\ sim' = [sim EXCEPT !.i = sim.params.new_tasks_per_day]
    /\ single' = [single EXCEPT !.i = single.params.new_tasks_per_day]
    /\ UNCHANGED <<pc, days, day_index, result, start_date, charged, steps,
                   call_steps>>

\* The last two lines of simulate_day in an endless run.
endless_day_end ==
    /\ pc = "bookkeep"
    /\ pc' = "run"
    /\ sim' = weekly(end_of_day(sim))
    /\ single' = weekly(end_of_day(single))
    /\ charged' = {<<p[1], weekday(p[2])>> : p \in charged}
    /\ UNCHANGED <<days, day_index, result, start_date, steps, call_steps>>

\* The weekdays an endless run is started on: a Monday and a Thursday
\* (every weekday comes round in it, whichever day it starts on).
EndlessStarts == {0, 3}

\* The engine inside a run_simulation call whose loop does not end.
InitEndless ==
    \E allow \in BOOLEAN, params \in ParamChoices, now \in EndlessStarts :
       /\ sim = new_simulation(allow, params, 1, now)
       /\ single = new_simulation(allow, params, 1, now)
       /\ start_date = now
       /\ pc = "run"
       /\ days = 0
       /\ day_index = 0
       /\ result = NoResult
       /\ steps = 0
       /\ call_steps = 0
       /\ charged = {}

NextEndless ==
    \/ endless_loop
    \/ generate_tracked
    \/ generate_untracked
    \/ generate_daily_tasks_done
    \/ progress_tasks
    \/ progress_tasks_skip
    \/ progress_tasks_done
    \/ attempt_deployments_skipped
    \/ attempt_deployments_begin
    \/ attempt_deployments
    \/ attempt_deployments_done
    \/ daily_delay_cost
    \/ endless_day_end

\* The completion draw of progress_tasks succeeds for task k: a dependency
\* is removed.
completion_draw_succeeds(k) ==
    /\ progress_tasks
    /\ sim.i = k
    /\ Len(sim'.tasks[k].dependencies) < Len(sim.tasks[k].dependencies)

\* The readiness draw of progress_tasks succeeds for task k.
readiness_draw_succeeds(k) ==
    /\ progress_tasks
    /\ sim.i = k
    /\ sim'.tasks[k].status = READY_TO_DEPLOY

\* The day-steps go on, and a draw that is made again and again with a
\* nonzero probability of success succeeds at some time.
SpecEndless ==
    /\ InitEndless
    /\ [][NextEndless]_vars
    /\ WF_vars(NextEndless)
    /\ \A k \in 1..MaxTracked :
          /\ SF_vars(completion_draw_succeeds(k))
          /\ SF_vars(readiness_draw_succeeds(k))

\* C20: under fairness of the draws, with every team's completion rate
\* above 0 and under either flag, every task generated is DEPLOYED or
\* FAILED at some later time, and stays so: none stays IN_PROGRESS or
\* READY_TO_DEPLOY for ever.
C20_EveryTaskSettles ==
    \A k \in 1..MaxTracked :
       (Len(sim.tasks) >= k)
          ~> [](Len(sim.tasks) >= k /\ sim.tasks[k].status \in Terminal)

\* C20 witness: every task followed is DEPLOYED or FAILED, one of them
\* after a dependency was drawn for it and after it waited, ready, over a
\* Friday without deploys.
C20_Witness ==
    /\ Len(sim.tasks) = MaxTracked
    /\ \A k \in Tasks : sim.tasks[k].status \in Terminal
    /\ \E k \in Tasks : sim.tasks[k].status = FAILED
    /\ charged # {}
    /\ \A t \in 1..Len(sim.params.other_teams) :
          sim.params.other_teams[t].task_completion_rate > 0

====
